---- MODULE Spec2Model ----
(***************************************************************************)
(* Model of std::string (src/std/string.h): a UTF-16 code-unit buffer with *)
(* encoding detection, transcoding and growth-managed storage, and of the  *)
(* move-only output buffer throw_away_string.                              *)
(*                                                                         *)
(* Conventions.                                                            *)
(*  - A byte is a number 0..255, a code unit a number 0..65535 (the bit    *)
(*    pattern of the signed short the code stores).                        *)
(*  - A string object is a record [null, mem, len, cap, fault]: null says  *)
(*    ptr == nullptr, mem is the block ptr points to (one cell per         *)
(*    allocated unit), len and cap are the fields len and _str_capacity,   *)
(*    fault records undefined behaviour committed on the object.           *)
(*  - A cell that was allocated and never written holds Uninit.            *)
(*  - size_type values near 2^64 are written as the negative number with   *)
(*    the same residue (npos = 2^64-1 is written -1); ULe/ULt compare      *)
(*    them as unsigned numbers.                                            *)
(***************************************************************************)
EXTENDS Integers, Sequences, FiniteSets, TLC

VARIABLES inp, mode, src, pc, enc, err, out, s, hist, ret, own, vec

vars == <<inp, mode, src, pc, enc, err, out, s, hist, ret, own, vec>>

(***************************************************************************)
(* Bounds of the model.                                                    *)
(***************************************************************************)
MaxChunks == 3
MaxUnits == 3
MaxLen == 2
MaxArg == 1
MaxReserve == 9
MaxOwners == 3
MaxArrays == 3
MaxCmp == 1
SizeBits == 4
MaxVec == 3
MaxCapacity == 9
MaxRequired == 20

(***************************************************************************)
(* Program constants.                                                      *)
(***************************************************************************)
InitialCapacity == 8
npos == -1
Uninit == -2

\* unsigned comparison of size_type values (negative = value + 2^64)
ULt(a, b) ==
    IF (a >= 0) = (b >= 0) THEN a < b ELSE a >= 0

ULe(a, b) == a = b \/ ULt(a, b)

(***************************************************************************)
(* Inputs.                                                                 *)
(***************************************************************************)
Bytes == {0, 65, 128, 152, 159, 169, 195, 226, 240, 254, 255}

\* well-formed multi-byte UTF-8 sequences: U+00E9, U+2018, U+1F600
Chunks ==
    {<<b>> : b \in Bytes} \cup {<<195, 169>>, <<226, 128, 152>>, <<240, 159, 152, 128>>}

RECURSIVE ChunkSeqs(_)
ChunkSeqs(n) ==
    IF n = 0 THEN {<<>>}
    ELSE LET shorter == ChunkSeqs(n - 1)
         IN  shorter \cup {x \o c : x \in shorter, c \in Chunks}

\* the byte-order marks detect_encoding knows
Marks == {"UTF8", "UTF16_BE", "UTF16_LE", "UTF32_BE", "UTF32_LE"}

MarkBytes(mark) ==
    CASE mark = "UTF8" -> <<239, 187, 191>>
      [] mark = "UTF16_BE" -> <<254, 255>>
      [] mark = "UTF16_LE" -> <<255, 254>>
      [] mark = "UTF32_BE" -> <<0, 0, 254, 255>>
      [] mark = "UTF32_LE" -> <<255, 254, 0, 0>>

\* texts of U+0041 and U+00E9 that follow a mark
RECURSIVE MarkedTexts(_)
MarkedTexts(n) ==
    IF n = 0 THEN {<<>>}
    ELSE LET shorter == MarkedTexts(n - 1)
         IN  shorter \cup {Append(x, v) : x \in shorter, v \in {65, 233}}

\* the bytes of such a text in the encoding of the mark
RECURSIVE TextBytes(_, _)
TextBytes(mark, text) ==
    IF text = <<>> THEN <<>>
    ELSE LET v == Head(text)
             hi == v \div 256
             lo == v % 256
         IN  (CASE mark = "UTF8" -> IF v < 128 THEN <<v>>
                                    ELSE <<192 + (v \div 64), 128 + (v % 64)>>
                [] mark = "UTF16_BE" -> <<hi, lo>>
                [] mark = "UTF16_LE" -> <<lo, hi>>
                [] mark = "UTF32_BE" -> <<0, 0, hi, lo>>
                [] mark = "UTF32_LE" -> <<lo, hi, 0, 0>>)
             \o TextBytes(mark, Tail(text))

MarkedInputs ==
    {MarkBytes(mark) \o TextBytes(mark, text) :
        mark \in Marks, text \in MarkedTexts(MaxChunks - 1)}

ByteInputs == ChunkSeqs(MaxChunks) \cup MarkedInputs

Units == {0, 65, 233, 8364, 55357, 56832}

RECURSIVE UnitSeqs(_)
UnitSeqs(n) ==
    IF n = 0 THEN {<<>>}
    ELSE LET shorter == UnitSeqs(n - 1)
         IN  shorter \cup {Append(x, u) : x \in shorter, u \in Units}

UnitInputs == UnitSeqs(MaxUnits)

\* 32-bit values: U+0041, U+FFFF, U+1F600, U+10FFFF and the first value behind
Scalars == {65, 65535, 128512, 1114111, 1114112}

RECURSIVE ScalarSeqs(_)
ScalarSeqs(n) ==
    IF n = 0 THEN {<<>>}
    ELSE LET shorter == ScalarSeqs(n - 1)
         IN  shorter \cup {Append(x, v) : x \in shorter, v \in Scalars}

ScalarInputs == ScalarSeqs(MaxUnits)

\* values a read outside the initialised storage may yield
GarbageBytes == {0, 255}
GarbageUnits == {0, 56832}

HasZero(q) == \E i \in 1..Len(q) : q[i] = 0

(***************************************************************************)
(* cstring.h                                                               *)
(***************************************************************************)
RECURSIVE StrlenFrom(_, _)
StrlenFrom(buf, i) ==
    IF i >= Len(buf) \/ buf[i + 1] = 0 THEN i ELSE StrlenFrom(buf, i + 1)

\* strlen of a buffer that holds a terminator
strlen(buf) == StrlenFrom(buf, 0)

(***************************************************************************)
(* The string object.                                                      *)
(***************************************************************************)
NullString == [null |-> TRUE, mem |-> <<>>, len |-> 0, cap |-> 0, fault |-> "none"]

\* new data_type[n]: n uninitialised cells
NewBlock(n) == [i \in 1..n |-> Uninit]

\* ptr[i] = v
Store(str, i, v) ==
    IF str.fault # "none" THEN str
    ELSE IF str.null THEN [str EXCEPT !.fault = "null_write"]
    ELSE IF i < 0 \/ i >= Len(str.mem) THEN [str EXCEPT !.fault = "oob_write"]
    ELSE [str EXCEPT !.mem[i + 1] = v]

\* ptr[i] read as an unsigned unit; g is what uninitialised or foreign memory holds
Load(str, i, g) ==
    IF str.null \/ i < 0 \/ i >= Len(str.mem) THEN g
    ELSE IF str.mem[i + 1] = Uninit THEN g
    ELSE str.mem[i + 1]

\* ptr[i] as stored; a cell behind the block reads as an unwritten one
Cell(str, i) == IF ~str.null /\ i >= 0 /\ i < Len(str.mem) THEN str.mem[i + 1] ELSE Uninit

\* the units in [0, len)
Content(str) == [i \in 1..str.len |-> Cell(str, i - 1)]

\* ensure_capacity without the update of _str_capacity
ensure_capacity_StaleCapacity(str, n) ==
    IF str.fault = "none" /\ n > str.cap
    THEN LET dbl == IF str.cap = 0 THEN InitialCapacity ELSE str.cap * 2
             new_cap == IF dbl < n THEN n ELSE dbl
             copied == IF ~str.null /\ str.len > 0 THEN str.len ELSE 0
         IN  [null |-> FALSE,
              mem |-> [i \in 1..new_cap |->
                          IF i <= copied /\ i <= Len(str.mem) THEN str.mem[i] ELSE Uninit],
              len |-> str.len, cap |-> str.cap, fault |-> str.fault]
    ELSE str

\* grows the block to hold n units: INITIAL_CAPACITY or twice the capacity, n when
\* that is still too small; the cells behind the copied units are unwritten
ensure_capacity(str, n) ==
    IF str.fault = "none" /\ n > str.cap
    THEN LET dbl == IF str.cap = 0 THEN InitialCapacity ELSE str.cap * 2
             new_cap == IF dbl < n THEN n ELSE dbl
             copied == IF ~str.null /\ str.len > 0 THEN str.len ELSE 0
         IN  [null |-> FALSE,
              mem |-> [i \in 1..new_cap |->
                          IF i <= copied /\ i <= Len(str.mem) THEN str.mem[i] ELSE Uninit],
              len |-> str.len, cap |-> new_cap, fault |-> str.fault]
    ELSE str

(***************************************************************************)
(* Encoding detector.                                                      *)
(***************************************************************************)
RECURSIVE HeuristicLoop(_, _, _, _, _)
HeuristicLoop(buf, n, i, expected, count) ==
    IF i >= n THEN (IF count > 0 THEN "UTF8" ELSE "ASCII")
    ELSE LET byte == buf[i + 1]
         IN  IF expected = 0
             THEN IF byte <= 127 THEN HeuristicLoop(buf, n, i + 1, 0, count)
                  ELSE IF byte \div 32 = 6 THEN HeuristicLoop(buf, n, i + 1, 1, count + 1)
                  ELSE IF byte \div 16 = 14 THEN HeuristicLoop(buf, n, i + 1, 2, count + 1)
                  ELSE IF byte \div 8 = 30 THEN HeuristicLoop(buf, n, i + 1, 3, count + 1)
                  ELSE "ASCII"
             ELSE IF byte \div 64 # 2 THEN "ASCII"
                  ELSE HeuristicLoop(buf, n, i + 1, expected - 1, count)

detect_utf8_heuristic(buf, n) == HeuristicLoop(buf, n, 0, 0, 0)

\* the variant that takes the two UTF-16 marks for each other
detect_encoding_SwappedMarks(buf, len_in) ==
    LET n == IF len_in = -1 THEN strlen(buf) ELSE len_in
    IN  IF n < 2 THEN "ASCII"
        ELSE IF n >= 3 /\ buf[1] = 239 /\ buf[2] = 187 /\ buf[3] = 191 THEN "UTF8"
        ELSE IF buf[1] = 254 /\ buf[2] = 255 THEN "UTF16_LE"
        ELSE IF buf[1] = 255 /\ buf[2] = 254 THEN "UTF16_BE"
        ELSE IF n >= 4 /\ buf[1] = 0 /\ buf[2] = 0 /\ buf[3] = 254 /\ buf[4] = 255
             THEN "UTF32_BE"
        ELSE IF n >= 4 /\ buf[1] = 255 /\ buf[2] = 254 /\ buf[3] = 0 /\ buf[4] = 0
             THEN "UTF32_LE"
        ELSE detect_utf8_heuristic(buf, n)

\* len_in = -1 asks for a scan to the terminator
detect_encoding(buf, len_in) ==
    LET n == IF len_in = -1 THEN strlen(buf) ELSE len_in
    IN  IF n < 2 THEN "ASCII"
        ELSE IF n >= 3 /\ buf[1] = 239 /\ buf[2] = 187 /\ buf[3] = 191 THEN "UTF8"
        ELSE IF buf[1] = 254 /\ buf[2] = 255 THEN "UTF16_BE"
        ELSE IF buf[1] = 255 /\ buf[2] = 254 THEN "UTF16_LE"
        ELSE IF n >= 4 /\ buf[1] = 0 /\ buf[2] = 0 /\ buf[3] = 254 /\ buf[4] = 255
             THEN "UTF32_BE"
        ELSE IF n >= 4 /\ buf[1] = 255 /\ buf[2] = 254 /\ buf[3] = 0 /\ buf[4] = 0
             THEN "UTF32_LE"
        ELSE detect_utf8_heuristic(buf, n)

(***************************************************************************)
(* Decoders.  Each returns [str, err]: the object as the routine leaves it *)
(* and the message of the runtime_error it threw ("none" when it returns). *)
(***************************************************************************)
\* str[i] of the input; fill is what lies behind the end of the buffer
ByteAt(buf, i, fill) ==
    IF i < Len(buf) THEN buf[i + 1]
    ELSE IF i - Len(buf) < Len(fill) THEN fill[i - Len(buf) + 1]
    ELSE 0

\* static_cast<data_type>(char): char is signed or unsigned by the build
CharToUnit(byte, signedChar) ==
    IF signedChar /\ byte >= 128 THEN 65280 + byte ELSE byte

RECURSIVE AsciiLoop(_, _, _, _, _)
AsciiLoop(str, buf, len_in, i, signedChar) ==
    IF i >= len_in THEN [str |-> str, err |-> "none"]
    ELSE AsciiLoop([Store(str, str.len, CharToUnit(buf[i + 1], signedChar))
                       EXCEPT !.len = str.len + 1],
                   buf, len_in, i + 1, signedChar)

\* the variant that forgets code_point -= 0x10000
Utf8HighSurrogate_NoOffset(code_point) == 55296 + ((code_point \div 1024) % 1024)

\* code_point -= 0x10000 (in 32 bits), then 0xD800 | ((code_point >> 10) & 0x3FF)
Utf8HighSurrogate(code_point) == 55296 + (((code_point - 65536) % 1048576) \div 1024)

\* 0xDC00 | (code_point & 0x3FF), after the subtraction
Utf8LowSurrogate(code_point) == 56320 + ((code_point - 65536) % 1024)

RECURSIVE Utf8Loop(_, _, _, _, _)
Utf8Loop(str, buf, len_in, i, utf16_index) ==
    IF i >= len_in THEN [str |-> [str EXCEPT !.len = utf16_index], err |-> "none"]
    ELSE LET first_byte == buf[i + 1]
         IN  IF first_byte < 128
             THEN Utf8Loop(Store(ensure_capacity(str, utf16_index + 1), utf16_index, first_byte),
                           buf, len_in, i + 1, utf16_index + 1)
             ELSE IF first_byte \div 32 = 6
             THEN IF i + 1 >= len_in
                  THEN [str |-> str, err |-> "Incomplete UTF-8 sequence"]
                  ELSE IF buf[i + 2] \div 64 # 2
                  THEN [str |-> str, err |-> "Invalid UTF-8 sequence"]
                  ELSE LET code_point == (first_byte % 32) * 64 + (buf[i + 2] % 64)
                       IN  Utf8Loop(Store(ensure_capacity(str, utf16_index + 1),
                                          utf16_index, code_point),
                                    buf, len_in, i + 2, utf16_index + 1)
             ELSE IF first_byte \div 16 = 14
             THEN IF i + 2 >= len_in
                  THEN [str |-> str, err |-> "Incomplete UTF-8 sequence"]
                  ELSE IF buf[i + 2] \div 64 # 2 \/ buf[i + 3] \div 64 # 2
                  THEN [str |-> str, err |-> "Invalid UTF-8 sequence"]
                  ELSE LET code_point == (first_byte % 16) * 4096 + (buf[i + 2] % 64) * 64
                                         + (buf[i + 3] % 64)
                       IN  Utf8Loop(Store(ensure_capacity(str, utf16_index + 1),
                                          utf16_index, code_point),
                                    buf, len_in, i + 3, utf16_index + 1)
             ELSE IF first_byte \div 8 = 30
             THEN IF i + 3 >= len_in
                  THEN [str |-> str, err |-> "Incomplete UTF-8 sequence"]
                  ELSE IF buf[i + 2] \div 64 # 2 \/ buf[i + 3] \div 64 # 2
                          \/ buf[i + 4] \div 64 # 2
                  THEN [str |-> str, err |-> "Invalid UTF-8 sequence"]
                  ELSE LET code_point == (first_byte % 8) * 262144 + (buf[i + 2] % 64) * 4096
                                         + (buf[i + 3] % 64) * 64 + (buf[i + 4] % 64)
                           s1 == ensure_capacity(str, utf16_index + 2)
                           s2 == Store(s1, utf16_index, Utf8HighSurrogate(code_point))
                           s3 == Store(s2, utf16_index + 1, Utf8LowSurrogate(code_point))
                       IN  Utf8Loop(s3, buf, len_in, i + 4, utf16_index + 2)
             ELSE [str |-> str, err |-> "Invalid UTF-8 start byte"]

convert_utf8_to_utf16(str, buf, len_in) == Utf8Loop(str, buf, len_in, 0, 0)

\* one 16-bit unit read at byte offset i in the given byte order
Unit16At(buf, i, fill, littleEndian) ==
    IF littleEndian THEN ByteAt(buf, i + 1, fill) * 256 + ByteAt(buf, i, fill)
    ELSE ByteAt(buf, i, fill) * 256 + ByteAt(buf, i + 1, fill)

PushUnit(str, v) ==
    LET s1 == ensure_capacity(str, str.len + 1)
    IN  [Store(s1, s1.len, v) EXCEPT !.len = s1.len + 1]

RECURSIVE Utf16Loop(_, _, _, _, _, _)
Utf16Loop(str, buf, len_in, i, fill, littleEndian) ==
    IF i >= len_in THEN [str |-> str, err |-> "none"]
    ELSE LET code_unit == Unit16At(buf, i, fill, littleEndian)
             s1 == PushUnit(str, code_unit)
         IN  IF code_unit >= 55296 /\ code_unit <= 56319
             THEN IF i + 2 >= len_in
                  THEN [str |-> s1, err |-> "Incomplete surrogate pair"]
                  ELSE LET low_surrogate == Unit16At(buf, i + 2, fill, littleEndian)
                       IN  IF low_surrogate < 56320 \/ low_surrogate > 57343
                           THEN [str |-> s1, err |-> "Invalid low surrogate"]
                           ELSE Utf16Loop(PushUnit(s1, low_surrogate), buf, len_in,
                                          i + 4, fill, littleEndian)
             ELSE Utf16Loop(s1, buf, len_in, i + 2, fill, littleEndian)

convert_utf16le_to_utf16(str, buf, len_in, fill) ==
    Utf16Loop([ensure_capacity(str, len_in \div 2) EXCEPT !.len = 0],
              buf, len_in, 0, fill, TRUE)

convert_utf16be_to_utf16(str, buf, len_in, fill) ==
    Utf16Loop([ensure_capacity(str, len_in \div 2) EXCEPT !.len = 0],
              buf, len_in, 0, fill, FALSE)

\* the little-endian read with the two upper bytes exchanged
Scalar32At_UpperBytesSwapped(buf, i, fill, littleEndian) ==
    IF littleEndian
    THEN [hi |-> ByteAt(buf, i + 2, fill) * 256 + ByteAt(buf, i + 3, fill),
          lo |-> ByteAt(buf, i + 1, fill) * 256 + ByteAt(buf, i, fill)]
    ELSE [hi |-> ByteAt(buf, i, fill) * 256 + ByteAt(buf, i + 1, fill),
          lo |-> ByteAt(buf, i + 2, fill) * 256 + ByteAt(buf, i + 3, fill)]

\* the four bytes at offset i as [hi, lo]: hi = bits 16..31, lo = bits 0..15
Scalar32At(buf, i, fill, littleEndian) ==
    IF littleEndian
    THEN [hi |-> ByteAt(buf, i + 3, fill) * 256 + ByteAt(buf, i + 2, fill),
          lo |-> ByteAt(buf, i + 1, fill) * 256 + ByteAt(buf, i, fill)]
    ELSE [hi |-> ByteAt(buf, i, fill) * 256 + ByteAt(buf, i + 1, fill),
          lo |-> ByteAt(buf, i + 2, fill) * 256 + ByteAt(buf, i + 3, fill)]

RECURSIVE Utf32Loop(_, _, _, _, _, _)
Utf32Loop(str, buf, len_in, i, fill, littleEndian) ==
    IF i >= len_in THEN [str |-> str, err |-> "none"]
    ELSE LET w == Scalar32At(buf, i, fill, littleEndian)
         IN  IF w.hi = 0
             THEN Utf32Loop(PushUnit(str, w.lo), buf, len_in, i + 4, fill, littleEndian)
             ELSE IF w.hi <= 16
             THEN LET cp == (w.hi - 1) * 65536 + w.lo
                      s1 == ensure_capacity(str, str.len + 2)
                      s2 == Store(s1, s1.len, 55296 + ((cp \div 1024) % 1024))
                      s3 == Store(s2, s1.len + 1, 56320 + (cp % 1024))
                  IN  Utf32Loop([s3 EXCEPT !.len = s1.len + 2], buf, len_in, i + 4,
                                fill, littleEndian)
             ELSE [str |-> str, err |-> "Invalid Unicode code point"]

convert_utf32le_to_utf16(str, buf, len_in, fill) ==
    Utf32Loop([ensure_capacity(str, (len_in \div 4) * 2) EXCEPT !.len = 0],
              buf, len_in, 0, fill, TRUE)

convert_utf32be_to_utf16(str, buf, len_in, fill) ==
    Utf32Loop([ensure_capacity(str, (len_in \div 4) * 2) EXCEPT !.len = 0],
              buf, len_in, 0, fill, FALSE)

convert_to_utf16(str, buf, len_in, encoding, fill, signedChar) ==
    LET true_len == IF len_in = -1 THEN strlen(buf) ELSE len_in
        s1 == [ensure_capacity(str, true_len) EXCEPT !.len = 0]
    IN  CASE encoding = "ASCII" -> AsciiLoop(s1, buf, len_in, 0, signedChar)
          [] encoding = "UTF8" -> convert_utf8_to_utf16(s1, buf, true_len)
          [] encoding = "UTF16_LE" -> convert_utf16le_to_utf16(s1, buf, true_len, fill)
          [] encoding = "UTF16_BE" -> convert_utf16be_to_utf16(s1, buf, true_len, fill)
          [] encoding = "UTF32_LE" -> convert_utf32le_to_utf16(s1, buf, true_len, fill)
          [] encoding = "UTF32_BE" -> convert_utf32be_to_utf16(s1, buf, true_len, fill)

(***************************************************************************)
(* Constructors.                                                           *)
(***************************************************************************)
\* string(const char *str, ssize_type len_in = -1)
StringFromBytes(buf, len_in, fill, signedChar) ==
    LET encoding == detect_encoding(buf, len_in)
        r == convert_to_utf16(NullString, buf, len_in, encoding, fill, signedChar)
    IN  [str |-> r.str, err |-> r.err, enc |-> encoding]

\* memcpy(ptr, src, n * sizeof(data_type)): returns at once on a null pointer
CopyUnits(str, at, units, n) ==
    IF str.null \/ n = 0 THEN str
    ELSE IF at + n > Len(str.mem) THEN [str EXCEPT !.fault = "oob_write"]
    ELSE [str EXCEPT !.mem = [i \in 1..Len(str.mem) |->
                                 IF i > at /\ i <= at + n
                                 THEN (IF i - at <= Len(units) THEN units[i - at] ELSE Uninit)
                                 ELSE str.mem[i]]]

\* string(const_type str, ssize_type len_in = -1); ubuf holds the terminator
\* when the length is scanned
StringFromUnits(ubuf, len_in) ==
    LET n == IF len_in = -1 THEN strlen(ubuf) ELSE len_in
        s1 == ensure_capacity([NullString EXCEPT !.len = n], n)
    IN  CopyUnits(s1, 0, ubuf, n)

(***************************************************************************)
(* Buffer operations.  A const string& argument is given by the object it  *)
(* refers to; zeroNull says whether new data_type[0] yields a null pointer *)
(* (the allocator of the build decides).                                   *)
(***************************************************************************)
\* string(): ensure_capacity(1); ptr[0] = 0
DefaultString == Store(ensure_capacity(NullString, 1), 0, 0)

\* string(const string &other)
CopyConstruct(other) ==
    IF other.len > 0
    THEN CopyUnits([null |-> FALSE, mem |-> NewBlock(other.cap), len |-> other.len,
                    cap |-> other.cap, fault |-> "none"],
                   0, other.mem, IF other.null THEN 0 ELSE other.len)
    ELSE [null |-> TRUE, mem |-> <<>>, len |-> 0, cap |-> other.cap, fault |-> "none"]

\* the moved-from object that keeps its length
MovedFrom_KeepsLength(other) == [other EXCEPT !.null = TRUE, !.mem = <<>>, !.cap = 0]

\* string(string &&other) and operator=(string &&other): the target takes ptr,
\* len and _str_capacity of other
MoveTarget(other) == other

\* other.ptr = nullptr; other.len = 0; other._str_capacity = 0
MovedFrom(other) == [other EXCEPT !.null = TRUE, !.mem = <<>>, !.len = 0, !.cap = 0]

\* operator=(const string &other), this != &other
CopyAssign(str, other, zeroNull) ==
    CopyUnits([null |-> (other.cap = 0 /\ zeroNull), mem |-> NewBlock(other.cap),
               len |-> other.len, cap |-> other.cap, fault |-> "none"],
              0, other.mem, IF other.null THEN 0 ELSE other.len)

\* operator=(const_type str): the length is the strlen of the bytes of the
\* literal, which end at the first zero byte of the first unit below 0x100
LiteralBytes(units, littleEndian) ==
    [k \in 1..(2 * Len(units)) |->
        LET u == units[(k + 1) \div 2]
        IN  IF (k % 2 = 1) = littleEndian THEN u % 256 ELSE u \div 256]

AssignLiteral(str, ubuf, littleEndian, g) ==
    LET n == strlen(LiteralBytes(ubuf, littleEndian))
        s1 == ensure_capacity([str EXCEPT !.len = n], n)
        \* the literal, its terminator, and what lies behind it
        source == [i \in 1..n |-> IF i <= Len(ubuf) THEN ubuf[i]
                                  ELSE IF i = Len(ubuf) + 1 THEN 0 ELSE g]
    IN  CopyUnits(s1, 0, source, n)

push_back(str, ch) == PushUnit(str, ch)

pop_back(str) == IF str.len > 0 THEN [str EXCEPT !.len = str.len - 1] ELSE str

shrink_to_fit(str, zeroNull) ==
    [null |-> (str.len = 0 /\ zeroNull),
     mem |-> [i \in 1..str.len |->
                 IF ~str.null /\ i <= Len(str.mem) THEN str.mem[i] ELSE Uninit],
     len |-> str.len, cap |-> str.len, fault |-> str.fault]

reserve(str, n) == ensure_capacity(str, n)

\* resize(size_type new_size)
resize(str, new_size) == [ensure_capacity(str, new_size) EXCEPT !.len = new_size]

RECURSIVE FillLoop(_, _, _)
FillLoop(str, n, ch) ==
    IF str.len < n /\ str.fault = "none" THEN FillLoop(push_back(str, ch), n, ch) ELSE str

\* resize(size_type n, data_type ch)
resize_fill(str, n, ch) ==
    IF n > str.len THEN FillLoop(reserve(str, n), n, ch) ELSE resize(str, n)

clear(str) == NullString

\* append(const string &other): memcpy(ptr + len, other.ptr, ...) does nothing
\* when either pointer is null
append(str, other) ==
    LET s1 == ensure_capacity(str, str.len + other.len)
        s2 == IF s1.null /\ s1.len > 0 /\ ~other.null /\ other.len > 0
              THEN [s1 EXCEPT !.fault = "null_write"]
              ELSE CopyUnits(s1, s1.len, other.mem, IF other.null THEN 0 ELSE other.len)
    IN  [s2 EXCEPT !.len = s1.len + other.len]

\* append(const char *str): detect_encoding(str, -1), convert_to_utf16(str, -1, e)
append_bytes(str, buf, fill, signedChar) ==
    convert_to_utf16(str, buf, -1, detect_encoding(buf, -1), fill, signedChar)

\* operator+(const string &str) const
operator_plus(str, other) == append(CopyConstruct(str), other)

\* for (i = len; i > pos; --i) ptr[i + n - 1] = ptr[i - 1]
RECURSIVE ShiftRight(_, _, _, _)
ShiftRight(str, i, pos, n) ==
    IF i > pos /\ str.fault = "none"
    THEN ShiftRight(IF str.null THEN [str EXCEPT !.fault = "null_write"]
                    ELSE Store(str, i + n - 1, Cell(str, i - 1)),
                    i - 1, pos, n)
    ELSE str

\* for (i = 0; i < n; ++i) ptr[pos + i] = s[i]
RECURSIVE WriteUnits(_, _, _, _)
WriteUnits(str, pos, units, i) ==
    IF i < Len(units) /\ str.fault = "none"
    THEN WriteUnits(Store(str, pos + i, units[i + 1]), pos, units, i + 1)
    ELSE str

\* insert(size_type pos, const_type s, size_type n), and the two overloads that
\* take the units from a string or repeat one unit
insert(str, pos, units) ==
    IF ULt(str.len, pos) THEN [str |-> str, err |-> "out_of_range"]
    ELSE LET n == Len(units)
             s1 == ensure_capacity(str, str.len + n)
             s2 == ShiftRight(s1, s1.len, pos, n)
             s3 == WriteUnits(s2, pos, units, 0)
         IN  [str |-> [s3 EXCEPT !.len = s1.len + n], err |-> "none"]

\* for (i = 0; i < str.len; ++i) ptr[pos + i] = str.ptr[i], with str this object
RECURSIVE WriteOwnUnits(_, _, _, _)
WriteOwnUnits(str, pos, i, n) ==
    IF i < n /\ str.fault = "none"
    THEN WriteOwnUnits(Store(str, pos + i, Cell(str, i)), pos, i + 1, n)
    ELSE str

\* insert(size_type pos, const string &str) with str this object: str.ptr and
\* str.len are read from the object while it is changed
insert_self(str, pos) ==
    IF ULt(str.len, pos) THEN [str |-> str, err |-> "out_of_range"]
    ELSE LET n == str.len
             s1 == ensure_capacity(str, str.len + n)
             s2 == ShiftRight(s1, s1.len, pos, n)
             s3 == WriteOwnUnits(s2, pos, 0, n)
         IN  [str |-> [s3 EXCEPT !.len = s1.len + n], err |-> "none"]

\* for (i = pos; i + n < len; ++i) ptr[i] = ptr[i + n], in unsigned arithmetic
RECURSIVE ShiftLeft(_, _, _)
ShiftLeft(str, i, n) ==
    IF ULt(i + n, str.len) /\ str.fault = "none"
    THEN ShiftLeft(IF str.null \/ i + n >= Len(str.mem)
                   THEN [str EXCEPT !.fault = "oob_read"]
                   ELSE Store(str, i, str.mem[i + n + 1]),
                   i + 1, n)
    ELSE str

\* the variant whose shift reads one unit too far
erase_OffByOne(str, pos, n) ==
    IF ULt(str.len, pos) THEN [str |-> str, err |-> "out_of_range"]
    ELSE LET m == IF n = npos \/ ULt(str.len, pos + n) THEN str.len - pos ELSE n
             s1 == ShiftLeft(str, pos, m + 1)
         IN  [str |-> [s1 EXCEPT !.len = str.len - m], err |-> "none"]

erase(str, pos, n) ==
    IF ULt(str.len, pos) THEN [str |-> str, err |-> "out_of_range"]
    ELSE LET m == IF n = npos \/ ULt(str.len, pos + n) THEN str.len - pos ELSE n
             s1 == ShiftLeft(str, pos, m)
         IN  [str |-> [s1 EXCEPT !.len = str.len - m], err |-> "none"]

\* the comparison of needle with the units at i: the ways it can end, a read
\* of an unwritten cell going either way and a read behind the block being "oob"
RECURSIVE ScanAt(_, _, _, _)
ScanAt(str, needle, i, j) ==
    IF j >= Len(needle) THEN {"match"}
    ELSE IF str.null \/ i + j >= Len(str.mem) THEN {"oob"}
    ELSE LET c == str.mem[i + j + 1]
         IN  IF c = Uninit THEN {"mismatch"} \cup ScanAt(str, needle, i, j + 1)
             ELSE IF c = needle[j + 1] THEN ScanAt(str, needle, i, j + 1)
             ELSE {"mismatch"}

\* for (i = pos; i <= len - str.len; ++i): last is len - str.len as a size_type
RECURSIVE FindFrom(_, _, _, _)
FindFrom(str, needle, i, last) ==
    IF ~ULe(i, last) THEN {[ret |-> npos, fault |-> "none"]}
    ELSE LET r == ScanAt(str, needle, i, 0)
         IN  (IF "match" \in r THEN {[ret |-> i, fault |-> "none"]} ELSE {})
             \cup (IF "oob" \in r THEN {[ret |-> npos, fault |-> "oob_read"]} ELSE {})
             \cup (IF "mismatch" \in r THEN FindFrom(str, needle, i + 1, last) ELSE {})

\* find(const string &str, size_type pos): the results the call can have
find(str, needle, pos) ==
    IF ~ULt(pos, str.len) THEN {[ret |-> npos, fault |-> "none"]}
    ELSE IF Len(needle) = 0 THEN {[ret |-> pos, fault |-> "none"]}
    ELSE FindFrom(str, needle, pos, str.len - Len(needle))

(***************************************************************************)
(* Re-encoder: string::throw_away and the throw_away_string constructor.   *)
(***************************************************************************)
\* the bytes the loop writes to utf8_result[0], [1], ... in order; g is what
\* a read of ptr[i] outside the written storage yields
RECURSIVE EncodeLoop(_, _, _, _)
EncodeLoop(str, i, written, g) ==
    IF i >= str.len THEN written
    ELSE LET code_unit == Load(str, i, g)
         IN  IF code_unit < 128
             THEN EncodeLoop(str, i + 1, Append(written, code_unit), g)
             ELSE IF code_unit < 2048
             THEN EncodeLoop(str, i + 1,
                             written \o <<192 + (code_unit \div 64), 128 + (code_unit % 64)>>, g)
             ELSE IF code_unit >= 55296 /\ code_unit <= 56319
             THEN LET low_surrogate == Load(str, i + 1, g)
                  IN  IF low_surrogate >= 56320 /\ low_surrogate <= 57343
                      THEN LET code_point == 65536 + (code_unit - 55296) * 1024
                                             + (low_surrogate - 56320)
                           IN  EncodeLoop(str, i + 2,
                                          written \o <<240 + (code_point \div 262144),
                                                       128 + ((code_point \div 4096) % 64),
                                                       128 + ((code_point \div 64) % 64),
                                                       128 + (code_point % 64)>>, g)
                      ELSE EncodeLoop(str, i + 1, written, g)
             ELSE IF code_unit >= 56320 /\ code_unit <= 57343
             THEN EncodeLoop(str, i + 1, written, g)
             ELSE EncodeLoop(str, i + 1,
                             written \o <<224 + (code_unit \div 4096),
                                          128 + ((code_unit \div 64) % 64),
                                          128 + (code_unit % 64)>>, g)

\* the highest index at which the loop reads ptr, -1 when it reads nothing
RECURSIVE EncodeLastRead(_, _, _, _)
EncodeLastRead(str, i, g, last) ==
    IF i >= str.len THEN last
    ELSE LET code_unit == Load(str, i, g)
         IN  IF code_unit >= 55296 /\ code_unit <= 56319
             THEN LET low_surrogate == Load(str, i + 1, g)
                  IN  IF low_surrogate >= 56320 /\ low_surrogate <= 57343
                      THEN EncodeLastRead(str, i + 2, g, i + 1)
                      ELSE EncodeLastRead(str, i + 1, g, i + 1)
             ELSE EncodeLastRead(str, i + 1, g, IF last < i THEN i ELSE last)

\* The results throw_away can produce.  utf8_result has len + 1 zeroed bytes.
\* A write at an index > len leaves the array, and when no zero byte is left in
\* the array the strlen of the throw_away_string constructor reads behind it: both
\* are undefined, and the outcomes are the writes landing in slack that holds a
\* zero, foreign bytes being counted in, or a fault.
throw_away(str, g) ==
    IF str.null THEN {[kind |-> "ok", bytes |-> <<>>, overrun |-> FALSE]}
    ELSE LET written == EncodeLoop(str, 0, <<>>, g)
             j == Len(written)
             size == str.len + 1
             n == strlen(written)
             text == SubSeq(written, 1, n)
         IN  IF j > size \/ (j = size /\ n = j)
             THEN {[kind |-> "ok", bytes |-> text, overrun |-> TRUE],
                   [kind |-> "fault", bytes |-> <<>>, overrun |-> TRUE]}
                  \cup (IF n = j
                        THEN {[kind |-> "ok", bytes |-> Append(text, b), overrun |-> TRUE] :
                                 b \in GarbageBytes \ {0}}
                        ELSE {})
             ELSE {[kind |-> "ok", bytes |-> text, overrun |-> FALSE]}

\* data_type is short: a stored unit read as the signed value it is compared by
SignedUnit(u) == IF u >= 32768 THEN u - 65536 ELSE u

\* operator<: the loop over the first min(len, rhs.len) units
RECURSIVE LessLoop(_, _, _, _)
LessLoop(a, b, i, min_len) ==
    IF i >= min_len THEN a.len < b.len
    ELSE IF SignedUnit(Cell(a, i)) < SignedUnit(Cell(b, i)) THEN TRUE
    ELSE IF SignedUnit(Cell(a, i)) > SignedUnit(Cell(b, i)) THEN FALSE
    ELSE LessLoop(a, b, i + 1, min_len)

operator_less(a, b) ==
    LessLoop(a, b, 0, IF a.len < b.len THEN a.len ELSE b.len)

\* memcmp over the first size bytes, each read as unsigned char
RECURSIVE memcmp(_, _, _, _)
memcmp(abytes, bbytes, i, size) ==
    IF i >= size THEN 0
    ELSE IF abytes[i + 1] < bbytes[i + 1] THEN -1
    ELSE IF bbytes[i + 1] < abytes[i + 1] THEN 1
    ELSE memcmp(abytes, bbytes, i + 1, size)

\* operator==: equal lengths and equal bytes
operator_eq(a, b) ==
    IF a.len # b.len THEN FALSE
    ELSE memcmp(LiteralBytes(Content(a), TRUE), LiteralBytes(Content(b), TRUE),
                0, a.len * 2) = 0

(***************************************************************************)
(* Transcoding specification: an input is chosen, a string is constructed  *)
(* from it and re-encoded.                                                 *)
(***************************************************************************)
\* the last call on the buffer: its name, position and count arguments, the
\* content and the capacity before it, and the string argument
NoHist == [op |-> "none", pos |-> 0, n |-> 0, before |-> <<>>, cap |-> 0, arg |-> <<>>]
NoOut == [kind |-> "none", bytes |-> <<>>, overrun |-> FALSE]

\* the throw_away_string objects of a scope and the byte arrays on the heap:
\* of each object whether it is alive and the array its ptr holds (0: nullptr),
\* the arrays that are allocated, and how many were allocated so far
Owners == 1..MaxOwners
NoOwners ==
    [obj |-> [o \in Owners |-> [live |-> FALSE, ptr |-> 0]], arrays |-> {}, made |-> 0]

\* vector<T>: _data (null, or the block new T[n] gave), _size and _capacity;
\* fault records a write outside the block
NullVector == [null |-> TRUE, data |-> <<>>, size |-> 0, capacity |-> 0, fault |-> "none"]

\* the buffer the caller passes: with the scan sentinel it ends in a terminator
Buffer == IF mode = "scan" THEN Append(inp, 0) ELSE inp
LenIn == IF mode = "scan" THEN -1 ELSE Len(inp)

\* what the bytes behind the end of the buffer may hold, where the decoder of
\* the detected encoding reads them (16- and 32-bit units cut by the end)
FillsFor(buf, len_in) ==
    LET e == detect_encoding(buf, len_in)
        n == IF len_in = -1 THEN strlen(buf) ELSE len_in
        width == IF e \in {"UTF16_LE", "UTF16_BE"} THEN 2
                 ELSE IF e \in {"UTF32_LE", "UTF32_BE"} THEN 4 ELSE 1
    IN  IF ((n + width - 1) \div width) * width > Len(buf)
        THEN {<<a, b, c>> : a \in GarbageBytes, b \in GarbageBytes, c \in GarbageBytes}
        ELSE {<<>>}

\* the signedness of char matters to the ASCII path alone
SignsFor(buf, len_in) ==
    IF detect_encoding(buf, len_in) = "ASCII" /\ \E i \in 1..Len(buf) : buf[i] >= 128
    THEN BOOLEAN ELSE {TRUE}

\* the bytes of 32-bit values in the given byte order
ScalarBytes(scalars, littleEndian) ==
    [k \in 1..(4 * Len(scalars)) |->
        LET v == scalars[(k + 3) \div 4]
            j == (k - 1) % 4
            shift == IF littleEndian THEN j ELSE 3 - j
        IN  (v \div (256 ^ shift)) % 256]

CodecInit ==
    /\ src \in {"bytes", "units", "scalars"}
    /\ mode \in {"explicit", "scan"}
    /\ inp \in CASE src = "bytes" -> ByteInputs
               [] src = "units" -> UnitInputs
               [] src = "scalars" -> ScalarInputs
    /\ mode = "scan" => (~HasZero(inp) /\ src # "scalars")
    /\ pc = "input"
    /\ enc = "none"
    /\ err = "none"
    /\ out = NoOut
    /\ s = NullString
    /\ hist = NoHist
    /\ ret = 0
    /\ own = NoOwners
    /\ vec = NullVector

ConstructFromBytes ==
    /\ pc = "input"
    /\ src = "bytes"
    /\ \E fill \in FillsFor(Buffer, LenIn), signedChar \in SignsFor(Buffer, LenIn) :
          LET r == StringFromBytes(Buffer, LenIn, fill, signedChar)
          IN  /\ s' = r.str
              /\ err' = r.err
              /\ enc' = r.enc
              /\ pc' = IF r.err = "none" THEN "constructed" ELSE "failed"
    /\ UNCHANGED <<vec, own, inp, mode, src, out, hist, ret>>

ConstructFromUnits ==
    /\ pc = "input"
    /\ src = "units"
    /\ s' = StringFromUnits(Buffer, LenIn)
    /\ pc' = "constructed"
    /\ UNCHANGED <<vec, own, inp, mode, src, enc, err, out, hist, ret>>

ThrowAway ==
    /\ pc = "constructed"
    /\ s.fault = "none"
    /\ \E g \in GarbageUnits : out' \in throw_away(s, g)
    /\ pc' = "encoded"
    /\ UNCHANGED <<vec, own, inp, mode, src, enc, err, s, hist, ret>>

\* convert_to_utf16 in its UTF16_LE or UTF16_BE case, on the bytes of the
\* 16-bit units inp in that byte order
DecodeUtf16 ==
    /\ pc = "input"
    /\ src = "units"
    /\ mode = "explicit"
    /\ \E littleEndian \in BOOLEAN :
          LET encoding == IF littleEndian THEN "UTF16_LE" ELSE "UTF16_BE"
              buf == LiteralBytes(inp, littleEndian)
              r == convert_to_utf16(NullString, buf, Len(buf), encoding, <<>>, TRUE)
          IN  /\ s' = r.str
              /\ err' = r.err
              /\ enc' = encoding
              /\ pc' = IF r.err = "none" THEN "decoded" ELSE "decode_failed"
    /\ UNCHANGED <<vec, own, inp, mode, src, out, hist, ret>>

\* convert_to_utf16 in its UTF32_LE or UTF32_BE case, on the bytes of the
\* 32-bit values inp in that byte order
DecodeUtf32 ==
    /\ pc = "input"
    /\ src = "scalars"
    /\ \E littleEndian \in BOOLEAN :
          LET encoding == IF littleEndian THEN "UTF32_LE" ELSE "UTF32_BE"
              buf == ScalarBytes(inp, littleEndian)
              r == convert_to_utf16(NullString, buf, Len(buf), encoding, <<>>, TRUE)
          IN  /\ s' = r.str
              /\ err' = r.err
              /\ enc' = encoding
              /\ pc' = IF r.err = "none" THEN "decoded" ELSE "decode_failed"
    /\ UNCHANGED <<vec, own, inp, mode, src, out, hist, ret>>

\* the string built from the units inp compared with a second string: ret
\* holds the results of *this < rhs, rhs < *this and *this == rhs
Compare ==
    /\ pc = "constructed"
    /\ src = "units"
    /\ mode = "explicit"
    /\ s.fault = "none"
    /\ \E units \in UnitSeqs(MaxCmp) :
          LET rhs == StringFromUnits(units, Len(units))
          IN  /\ hist' = [NoHist EXCEPT !.op = "compare", !.arg = units]
              /\ ret' = [lt |-> operator_less(s, rhs),
                         gt |-> operator_less(rhs, s),
                         eq |-> operator_eq(s, rhs)]
    /\ pc' = "compared"
    /\ UNCHANGED <<vec, own, inp, mode, src, enc, err, out, s>>

CodecNext ==
    \/ ConstructFromBytes \/ ConstructFromUnits \/ ThrowAway
    \/ DecodeUtf16 \/ DecodeUtf32 \/ Compare

SpecCodec == CodecInit /\ [][CodecNext]_vars

(***************************************************************************)
(* Reference notions the properties are stated with.                       *)
(***************************************************************************)
IsContinuation(b) == b >= 128 /\ b <= 191

\* Reads b as UTF-8 from position i (1-based): status "ok" with the scalar
\* values, "truncated" when the input ends inside a multi-byte sequence whose
\* bytes so far are right, "invalid" otherwise.
RECURSIVE RefParse(_, _, _)
RefParse(b, i, acc) ==
    IF i > Len(b) THEN [status |-> "ok", scalars |-> acc]
    ELSE LET b0 == b[i]
             need == IF b0 < 128 THEN 0
                     ELSE IF b0 >= 194 /\ b0 <= 223 THEN 1
                     ELSE IF b0 >= 224 /\ b0 <= 239 THEN 2
                     ELSE IF b0 >= 240 /\ b0 <= 244 THEN 3
                     ELSE -1
             have == Len(b) - i
             present == IF need < have THEN need ELSE have
             tailOk == \A k \in 1..present : IsContinuation(b[i + k])
             v == CASE need = 0 -> b0
                    [] need = 1 -> (b0 - 192) * 64 + (b[i + 1] - 128)
                    [] need = 2 -> (b0 - 224) * 4096 + (b[i + 1] - 128) * 64 + (b[i + 2] - 128)
                    [] need = 3 -> (b0 - 240) * 262144 + (b[i + 1] - 128) * 4096
                                   + (b[i + 2] - 128) * 64 + (b[i + 3] - 128)
             inRange == CASE need = 0 -> TRUE
                          [] need = 1 -> TRUE
                          [] need = 2 -> v >= 2048 /\ ~(v >= 55296 /\ v <= 57343)
                          [] need = 3 -> v >= 65536 /\ v <= 1114111
         IN  IF need = -1 \/ ~tailOk THEN [status |-> "invalid", scalars |-> acc]
             ELSE IF have < need THEN [status |-> "truncated", scalars |-> acc]
             ELSE IF ~inRange THEN [status |-> "invalid", scalars |-> acc]
             ELSE RefParse(b, i + need + 1, Append(acc, v))

ValidUtf8(b) == RefParse(b, 1, <<>>).status = "ok"
TruncatedUtf8(b) == RefParse(b, 1, <<>>).status = "truncated"

\* the code units of a scalar sequence, by the formula of the specification
RECURSIVE RefUnits(_)
RefUnits(scalars) ==
    IF scalars = <<>> THEN <<>>
    ELSE LET v == Head(scalars)
         IN  (IF v <= 65535 THEN <<v>>
              ELSE <<55296 + ((v - 65536) \div 1024), 56320 + ((v - 65536) % 1024)>>)
             \o RefUnits(Tail(scalars))

IsHigh(u) == u >= 55296 /\ u <= 56319
IsLow(u) == u >= 56320 /\ u <= 57343

\* the UTF-8 bytes of a code-unit sequence: unpaired surrogates give nothing
RECURSIVE RefUtf8(_)
RefUtf8(u) ==
    IF u = <<>> THEN <<>>
    ELSE LET c == Head(u)
         IN  IF c < 128 THEN <<c>> \o RefUtf8(Tail(u))
             ELSE IF c < 2048 THEN <<192 + (c \div 64), 128 + (c % 64)>> \o RefUtf8(Tail(u))
             ELSE IF IsHigh(c) /\ Len(u) >= 2 /\ IsLow(u[2])
             THEN LET v == 65536 + (c - 55296) * 1024 + (u[2] - 56320)
                  IN  <<240 + (v \div 262144), 128 + ((v \div 4096) % 64),
                        128 + ((v \div 64) % 64), 128 + (v % 64)>> \o RefUtf8(Tail(Tail(u)))
             ELSE IF IsHigh(c) \/ IsLow(c) THEN RefUtf8(Tail(u))
             ELSE <<224 + (c \div 4096), 128 + ((c \div 64) % 64), 128 + (c % 64)>>
                  \o RefUtf8(Tail(u))

\* the runtime_error messages of the UTF-8 decoder
MalformedSequence ==
    {"Incomplete UTF-8 sequence", "Invalid UTF-8 sequence", "Invalid UTF-8 start byte"}

Built == pc \in {"constructed", "failed", "encoded"}

(***************************************************************************)
(* Properties of the transcoder (checked under SpecCodec).                 *)
(***************************************************************************)
\* C1: a string constructed from a valid UTF-8 byte sequence b (without NUL,
\* the buffers being C strings) and re-encoded by throw_away gives a buffer
\* whose bytes and size are those of b.
C1_RoundTrip ==
    (src = "bytes" /\ Built /\ ValidUtf8(inp) /\ ~HasZero(inp))
        => /\ pc # "failed"
           /\ pc = "encoded" => (out.kind = "ok" /\ out.bytes = inp)

\* C6: an input of length >= 2 that begins with FE FF is classified UTF-16BE,
\* whatever follows.
C6_BomPrecedence ==
    (src = "bytes" /\ Built /\ Len(inp) >= 2 /\ inp[1] = 254 /\ inp[2] = 255)
        => enc = "UTF16_BE"

C6_Witness ==
    /\ src = "bytes" /\ Built /\ enc = "UTF16_BE"
    /\ inp = <<254, 255, 195, 169>>
    /\ detect_utf8_heuristic(SubSeq(inp, 3, 4), 2) = "UTF8"

\* C7: n bytes of 7-bit ASCII give exactly the n units equal to the bytes, with
\* the length passed or scanned, and throw_away gives the bytes back.
C7_AsciiConstruct ==
    (src = "bytes" /\ Built /\ \A i \in 1..Len(inp) : inp[i] < 128)
        => /\ pc # "failed"
           /\ Content(s) = inp
           /\ (pc = "encoded" /\ ~HasZero(inp)) => (out.kind = "ok" /\ out.bytes = inp)

\* C8: bytes that end inside a multi-byte UTF-8 sequence make the construction
\* fail with the malformed-sequence error; no string is produced.
C8_TruncatedFails ==
    (src = "bytes" /\ Built /\ TruncatedUtf8(inp))
        => (pc = "failed" /\ err \in MalformedSequence)

\* C9: the UTF-8 decoder maps every well-formed sequence to its scalar values:
\* one unit v for v <= 0xFFFF, the surrogate pair of the formula above it.
C9_Utf8Decode ==
    (src = "bytes" /\ Built /\ enc = "UTF8" /\ ValidUtf8(inp))
        => /\ pc # "failed"
           /\ Content(s) = RefUnits(RefParse(inp, 1, <<>>).scalars)

C9_Witness ==
    /\ src = "bytes" /\ pc = "constructed" /\ enc = "UTF8"
    /\ inp = <<65, 195, 169, 240, 159, 152, 128>>
    /\ Content(s) = <<65, 233, 55357, 56832>>

\* C10: the output of throw_away for a code-unit sequence is the concatenation
\* of 1, 2, 3 or 4 bytes per unit or pair, and nothing for an unpaired surrogate.
C10_EncodeShape ==
    (src = "units" /\ pc = "encoded")
        => (out.kind = "ok" /\ out.bytes = RefUtf8(inp))

Decoded == pc \in {"decoded", "decode_failed"}

\* the runtime_error messages of the UTF-16 decoders
InvalidSurrogate == {"Incomplete surrogate pair", "Invalid low surrogate"}

\* a high surrogate not followed by a low one, or a low one not preceded by
\* a high one
HasUnpairedSurrogate(u) ==
    \E i \in 1..Len(u) :
       \/ IsHigh(u[i]) /\ ~(i < Len(u) /\ IsLow(u[i + 1]))
       \/ IsLow(u[i]) /\ ~(i > 1 /\ IsHigh(u[i - 1]))

\* C14: the UTF-16LE/BE decoders fail with the invalid-surrogate error exactly
\* when the units hold an unpaired or out-of-order surrogate; otherwise the
\* output units are the input's units.
C14_Utf16Surrogates ==
    (src = "units" /\ Decoded)
        => IF HasUnpairedSurrogate(inp)
           THEN pc = "decode_failed" /\ err \in InvalidSurrogate
           ELSE pc = "decoded" /\ Content(s) = inp

\* what a UTF-32 decoder makes of the values in the given byte order
Utf32Result(scalars, littleEndian) ==
    LET buf == ScalarBytes(scalars, littleEndian)
        r == convert_to_utf16(NullString, buf, Len(buf),
                              IF littleEndian THEN "UTF32_LE" ELSE "UTF32_BE", <<>>, TRUE)
    IN  [units |-> Content(r.str), err |-> r.err]

\* C15: the UTF-32LE and UTF-32BE decoders give the same result for the same
\* values: one unit up to 0xFFFF, the surrogate pair of the UTF-8 formula up
\* to 0x10FFFF, and the invalid-code-point error for a value above.
C15_Utf32Decode ==
    (src = "scalars" /\ Decoded)
        => /\ IF \E i \in 1..Len(inp) : inp[i] > 1114111
              THEN pc = "decode_failed" /\ err = "Invalid Unicode code point"
              ELSE pc = "decoded" /\ Content(s) = RefUnits(inp)
           /\ Utf32Result(inp, TRUE).err = Utf32Result(inp, FALSE).err
           /\ err = "none" => Utf32Result(inp, TRUE).units = Utf32Result(inp, FALSE).units

C15_Witness ==
    /\ src = "scalars" /\ pc = "decoded" /\ enc = "UTF32_LE"
    /\ inp = <<65, 128512, 1114111>>
    /\ Content(s) = <<65, 55357, 56832, 56319, 57343>>
    /\ Utf32Result(inp, FALSE).units = Content(s)

\* C16: an input of length >= 4 that begins with FF FE 00 00 is classified
\* UTF-32LE and one that begins with 00 00 FE FF UTF-32BE: the longest mark
\* that matches decides.
C16_LongestMark ==
    (src = "bytes" /\ Built /\ Len(inp) >= 4)
        => /\ SubSeq(inp, 1, 4) = MarkBytes("UTF32_LE") => enc = "UTF32_LE"
           /\ SubSeq(inp, 1, 4) = MarkBytes("UTF32_BE") => enc = "UTF32_BE"

\* C17: of an input that begins with a byte-order mark, the decoded units are
\* exactly those of the bytes behind the mark; the mark gives no unit.
C17_MarkSkipped ==
    (src = "bytes" /\ Built)
        => \A mark \in Marks, text \in MarkedTexts(MaxChunks - 1) :
              inp = MarkBytes(mark) \o TextBytes(mark, text)
                 => (pc # "failed" /\ Content(s) = text)

(***************************************************************************)
(* Buffer specification: one string object under any sequence of public    *)
(* operations.  Copy and move continue with the object that results.       *)
(***************************************************************************)
BufUnits == {65, 233}

RECURSIVE ArgSeqs(_)
ArgSeqs(n) ==
    IF n = 0 THEN {<<>>}
    ELSE LET shorter == ArgSeqs(n - 1)
         IN  shorter \cup {Append(x, u) : x \in shorter, u \in BufUnits}

ArgStrings == ArgSeqs(MaxArg)

\* the strings passed as const string& arguments
ArgObjects == {StringFromUnits(u, Len(u)) : u \in ArgStrings}

\* the C strings passed to append(const char*), with their terminator
ArgTexts == {<<65, 65, 0>>, <<195, 169, 0>>, <<65, 195, 0>>}

\* counts up to MaxArg, npos, and the size_type value 2^64 - 2
EraseCounts == (0..MaxArg) \cup {npos, -2}

\* every position up to one behind the end (all positions behind it behave alike)
Positions == 0..(s.len + 1)

\* the allocator's answer to a request of n cells matters for n = 0 alone
ZeroNulls(n) == IF n = 0 THEN BOOLEAN ELSE {FALSE}

\* the record of a call whose effect a property reads; the other calls leave
\* NoHist
Recorded(name, pos, n, arg) ==
    CASE name \in {"push_back", "append_unit", "append_string", "append_bytes", "operator_plus"} ->
             [NoHist EXCEPT !.op = name, !.cap = s.cap, !.before = Content(s), !.arg = arg]
      [] name \in {"insert", "insert_failed", "erase", "erase_failed"} ->
             [NoHist EXCEPT !.op = name, !.pos = pos, !.n = n, !.before = Content(s), !.arg = arg]
      [] name = "find" -> [NoHist EXCEPT !.op = name, !.pos = pos, !.arg = arg]
      [] name = "copy_construct" -> [NoHist EXCEPT !.op = name, !.before = Content(s)]
      [] name = "copy_assign" -> [NoHist EXCEPT !.op = name, !.arg = arg]
      [] OTHER -> NoHist

\* the object can be operated on; the result of a query is read first, and a
\* string longer than MaxLen is not worked on further
Alive == pc = "buffer" /\ s.fault = "none" /\ hist.op # "find" /\ s.len <= MaxLen

BufInit ==
    /\ pc = "buffer"
    /\ s = DefaultString
    /\ hist = NoHist
    /\ err = "none"
    /\ ret = 0
    /\ inp = <<>>
    /\ mode = "explicit"
    /\ src = "none"
    /\ enc = "none"
    /\ out = NoOut
    /\ own = NoOwners
    /\ vec = NullVector

Frame == UNCHANGED <<vec, own, inp, mode, src, pc, enc, out>>

\* s changes to next with no exception
Step(name, pos, n, arg, next) ==
    /\ s' = next
    /\ hist' = Recorded(name, pos, n, arg)
    /\ err' = "none"
    /\ ret' = 0
    /\ Frame

NewDefault == Alive /\ Step("string", 0, 0, <<>>, DefaultString)

NewFromUnits ==
    /\ Alive
    /\ \E u \in ArgStrings, scan \in BOOLEAN :
          Step("string_from_units", 0, 0, u,
               IF scan THEN StringFromUnits(Append(u, 0), -1) ELSE StringFromUnits(u, Len(u)))

DoCopyConstruct == Alive /\ Step("copy_construct", 0, 0, <<>>, CopyConstruct(s))

\* the record of a move from source: the units and the capacity it had
Moved(name, source) ==
    [NoHist EXCEPT !.op = name, !.before = Content(source), !.cap = source.cap]

\* string t(std::move(s)): continue with t, or with the moved-from s
DoMoveConstruct ==
    /\ Alive
    /\ \E keepTarget \in BOOLEAN :
          /\ s' = IF keepTarget THEN MoveTarget(s) ELSE MovedFrom(s)
          /\ hist' = Moved(IF keepTarget THEN "move_target" ELSE "moved_from", s)
    /\ err' = "none"
    /\ ret' = 0
    /\ Frame

\* s = other, and t = s for a t constructed before
DoCopyAssign ==
    /\ Alive
    /\ \/ \E other \in ArgObjects \cup {DefaultString} :
             \E zeroNull \in ZeroNulls(other.cap) :
                Step("copy_assign", 0, 0, Content(other), CopyAssign(s, other, zeroNull))
       \/ \E zeroNull \in ZeroNulls(s.cap) :
             Step("copy_assign", 0, 0, Content(s), CopyAssign(DefaultString, s, zeroNull))

\* s = std::move(other): s takes the fields of other and other is left null;
\* and t = std::move(s), continuing with the moved-from s
DoMoveAssign ==
    /\ Alive
    /\ \/ \E other \in ArgObjects \cup {DefaultString, NullString} :
             /\ s' = MoveTarget(other)
             /\ hist' = Moved("move_target", other)
       \/ /\ s' = MovedFrom(s)
          /\ hist' = Moved("moved_from", s)
    /\ err' = "none"
    /\ ret' = 0
    /\ Frame

DoAssignLiteral ==
    /\ Alive
    /\ \E u \in ArgStrings, littleEndian \in BOOLEAN :
       \E g \in IF strlen(LiteralBytes(u, littleEndian)) > Len(u) + 1
                THEN GarbageUnits ELSE {0} :
          Step("assign_literal", 0, 0, u, AssignLiteral(s, u, littleEndian, g))

DoPushBack ==
    /\ Alive
    /\ s.len < MaxLen
    /\ \E ch \in BufUnits : Step("push_back", 0, 1, <<ch>>, push_back(s, ch))

DoPopBack == Alive /\ Step("pop_back", 0, 0, <<>>, pop_back(s))

\* append(data_type ch) and operator+=(data_type ch)
DoAppendUnit ==
    /\ Alive
    /\ s.len < MaxLen
    /\ \E ch \in BufUnits : Step("append_unit", 0, 1, <<ch>>, PushUnit(s, ch))

\* append(const string &other) and operator+=, also with other = *this
DoAppendString ==
    /\ Alive
    /\ \E other \in ArgObjects \cup {s} :
          /\ s.len + other.len <= MaxLen
          /\ Step("append_string", 0, other.len, Content(other), append(s, other))

\* append(const char *str) and operator+=(const char *str)
DoAppendBytes ==
    /\ Alive
    /\ \E buf \in ArgTexts :
          LET r == append_bytes(s, buf, <<>>, TRUE)
          IN  /\ s' = r.str
              /\ err' = r.err
              /\ hist' = Recorded("append_bytes", 0, 0, SubSeq(buf, 1, Len(buf) - 1))
    /\ ret' = 0
    /\ Frame

DoOperatorPlus ==
    /\ Alive
    /\ \E other \in ArgObjects :
          /\ s.len + other.len <= MaxLen
          /\ Step("operator_plus", 0, other.len, Content(other), operator_plus(s, other))

\* the three insert overloads: units of a string, of an array, or n copies of
\* c; and s.insert(pos, s)
DoInsert ==
    /\ Alive
    /\ \/ \E pos \in Positions, units \in ArgStrings :
             /\ s.len + Len(units) <= MaxLen
             /\ LET r == insert(s, pos, units)
                IN  /\ s' = r.str
                    /\ err' = r.err
                    /\ hist' = Recorded(IF r.err = "none" THEN "insert" ELSE "insert_failed",
                                        pos, Len(units), units)
       \/ \E pos \in Positions :
             /\ s.len <= MaxLen
             /\ LET r == insert_self(s, pos)
                IN  /\ s' = r.str
                    /\ err' = r.err
                    /\ hist' = Recorded(IF r.err = "none" THEN "insert" ELSE "insert_failed",
                                        pos, s.len, Content(s))
    /\ ret' = 0
    /\ Frame

\* erase(pos, n); after an insert of n units at pos it is remembered as the
\* second half of the pair
DoErase ==
    /\ Alive
    /\ \E pos \in Positions, n \in EraseCounts :
          LET r == erase(s, pos, n)
          IN  /\ s' = r.str
              /\ err' = r.err
              /\ hist' = IF hist.op = "insert" /\ hist.pos = pos /\ hist.n = n
                         THEN [hist EXCEPT !.op = "insert_erase"]
                         ELSE Recorded(IF r.err = "none" THEN "erase" ELSE "erase_failed",
                                       pos, n, <<>>)
    /\ ret' = 0
    /\ Frame

DoResize ==
    /\ Alive
    /\ \E n \in 0..MaxLen : Step("resize", 0, n, <<>>, resize(s, n))

DoResizeFill ==
    /\ Alive
    /\ \E n \in 0..MaxLen, ch \in BufUnits : Step("resize_fill", 0, n, <<ch>>, resize_fill(s, n, ch))

DoReserve ==
    /\ Alive
    /\ \E n \in {0, 1, MaxLen, MaxReserve} : Step("reserve", 0, n, <<>>, reserve(s, n))

DoShrinkToFit ==
    /\ Alive
    /\ \E zeroNull \in ZeroNulls(s.len) :
          Step("shrink_to_fit", 0, 0, <<>>, shrink_to_fit(s, zeroNull))

DoClear == Alive /\ Step("clear", 0, 0, <<>>, clear(s))

FindNeedles == ArgStrings \cup {<<65, 233>>, <<233, 65, 65>>}

DoFind ==
    /\ Alive
    /\ \E needle \in FindNeedles, pos \in {0, 1, npos} :
          \E r \in find(s, needle, pos) :
             /\ ret' = r.ret
             /\ s' = [s EXCEPT !.fault = r.fault]
             /\ hist' = Recorded("find", pos, 0, needle)
    /\ err' = "none"
    /\ Frame

\* the caller has read the result of the query
Forget ==
    /\ pc = "buffer"
    /\ hist.op = "find"
    /\ s.fault = "none"
    /\ hist' = NoHist
    /\ ret' = 0
    /\ UNCHANGED <<s, err>>
    /\ Frame

BufNext ==
    \/ NewDefault \/ NewFromUnits
    \/ DoCopyConstruct \/ DoMoveConstruct \/ DoCopyAssign \/ DoMoveAssign \/ DoAssignLiteral
    \/ DoPushBack \/ DoPopBack \/ DoAppendUnit \/ DoAppendString \/ DoAppendBytes
    \/ DoOperatorPlus \/ DoInsert \/ DoErase
    \/ DoResize \/ DoResizeFill \/ DoReserve \/ DoShrinkToFit \/ DoClear
    \/ DoFind \/ Forget

SpecBuf == BufInit /\ [][BufNext]_vars

(***************************************************************************)
(* Output buffers: throw_away_string objects under to_utf8, moves and the  *)
(* end of their lifetime.                                                  *)
(***************************************************************************)
OwnInit ==
    /\ pc = "owners"
    /\ own = NoOwners
    /\ vec = NullVector
    /\ s = DefaultString
    /\ hist = NoHist
    /\ err = "none"
    /\ ret = 0
    /\ inp = <<>>
    /\ mode = "explicit"
    /\ src = "none"
    /\ enc = "none"
    /\ out = NoOut

OwnFrame == UNCHANGED <<vec, inp, mode, src, pc, enc, err, out, s, hist, ret>>

\* throw_away_string x = str.throw_away(): the array utf8_result is allocated
\* and deleted inside the call; the constructor of the result allocates the
\* array that x holds
OwnToUtf8 ==
    /\ pc = "owners"
    /\ own.made < MaxArrays
    /\ \E o \in Owners :
          /\ ~own.obj[o].live
          /\ own' = [obj |-> [own.obj EXCEPT ![o] = [live |-> TRUE, ptr |-> own.made + 1]],
                     arrays |-> own.arrays \cup {own.made + 1},
                     made |-> own.made + 1]
    /\ OwnFrame

\* throw_away_string x; the members keep their initialisers, ptr is nullptr
\* and nothing is deleted
OwnDefault ==
    /\ pc = "owners"
    /\ \E o \in Owners :
          /\ ~own.obj[o].live
          /\ own' = [own EXCEPT !.obj[o] = [live |-> TRUE, ptr |-> 0]]
    /\ OwnFrame

\* throw_away_string y(std::move(x))
OwnMoveConstruct ==
    /\ pc = "owners"
    /\ \E x \in Owners, y \in Owners :
          /\ own.obj[x].live /\ ~own.obj[y].live
          /\ own' = [own EXCEPT !.obj[y] = [live |-> TRUE, ptr |-> own.obj[x].ptr],
                                !.obj[x].ptr = 0]
    /\ OwnFrame

\* y = std::move(x), also with x and y the same object: ptr = other.ptr, then
\* other.ptr = nullptr; the array y held is not deleted
OwnMoveAssign ==
    /\ pc = "owners"
    /\ \E x \in Owners, y \in Owners :
          /\ own.obj[x].live /\ own.obj[y].live
          /\ own' = [own EXCEPT !.obj = [[own.obj EXCEPT ![y].ptr = own.obj[x].ptr]
                                            EXCEPT ![x].ptr = 0]]
    /\ OwnFrame

\* the end of an object's lifetime: the class declares no destructor, the
\* implicit one deletes nothing
OwnDestroy ==
    /\ pc = "owners"
    /\ \E o \in Owners :
          /\ own.obj[o].live
          /\ own' = [own EXCEPT !.obj[o] = [live |-> FALSE, ptr |-> 0]]
    /\ OwnFrame

OwnNext == OwnToUtf8 \/ OwnDefault \/ OwnMoveConstruct \/ OwnMoveAssign \/ OwnDestroy

SpecOwn == OwnInit /\ [][OwnNext]_vars

\* the live objects whose ptr is the array a
OwnersOf(a) == {o \in Owners : own.obj[o].live /\ own.obj[o].ptr = a}

\* C20: every allocated byte array has at most one live owner, and none stays
\* allocated without an owner.
C20_SingleOwner ==
    pc = "owners" => \A a \in own.arrays : Cardinality(OwnersOf(a)) = 1

(***************************************************************************)
(* Properties of the buffer (checked under SpecBuf).                       *)
(***************************************************************************)
\* C2: in every state reached by public operations, length <= capacity, and
\* the capacity is 0 exactly when the data pointer is null.
C2_Representation ==
    (pc = "buffer" /\ s.fault = "none")
        => (s.len <= s.cap /\ (s.cap = 0 <=> s.null))

\* C3: an append (push_back, append of a unit or of a string) never lowers the
\* capacity, and leaves capacity >= length.
C3_GrowthMonotone ==
    (pc = "buffer" /\ hist.op \in {"push_back", "append_unit", "append_string"})
        => (s.cap >= hist.cap /\ s.cap >= s.len)

\* an append that had to grow a block that was full
C3_Witness ==
    /\ pc = "buffer" /\ hist.op \in {"push_back", "append_unit", "append_string"}
    /\ s.fault = "none"
    /\ hist.cap > 0 /\ s.cap > hist.cap /\ s.len > hist.cap

MayOccurAt(needle, hay, i) ==
    /\ i + Len(needle) <= Len(hay)
    /\ \A j \in 1..Len(needle) : hay[i + j] = needle[j] \/ hay[i + j] = Uninit

\* C5: find(needle, from) returns npos whenever the needle does not occur as a
\* contiguous run within the first length units of the haystack.
C5_SearchSentinel ==
    (pc = "buffer" /\ hist.op = "find"
       /\ ~\E i \in 0..s.len : MayOccurAt(hist.arg, Content(s), i))
        => (s.fault = "none" /\ ret = npos)

\* the call before was an append, and it returned
Appended ==
    /\ pc = "buffer" /\ s.fault = "none" /\ err = "none"
    /\ hist.op \in {"push_back", "append_unit", "append_string", "append_bytes", "operator_plus"}

\* the units an append adds: those of the text for append(const char*)
AppendedUnits ==
    IF hist.op = "append_bytes" THEN RefUnits(RefParse(hist.arg, 1, <<>>).scalars) ELSE hist.arg

\* C11: every append overload leaves the units of [0, length) as they were,
\* writes the appended units from the old length on, and adds their number to
\* the length.
C11_AppendFrame ==
    (Appended /\ (hist.op = "append_bytes" => ValidUtf8(hist.arg)))
        => Content(s) = hist.before \o AppendedUnits

\* C12: insert at pos > length fails with out_of_range and changes nothing;
\* at pos <= length the result is the old units before pos, the new units, and
\* the old units from pos on.
C12_InsertResult ==
    /\ (pc = "buffer" /\ hist.op = "insert" /\ s.fault = "none"
          /\ \A i \in 1..Len(hist.before) : hist.before[i] # Uninit)
          => /\ err = "none"
             /\ hist.pos <= Len(hist.before)
             /\ Content(s) = SubSeq(hist.before, 1, hist.pos) \o hist.arg
                               \o SubSeq(hist.before, hist.pos + 1, Len(hist.before))
    /\ (pc = "buffer" /\ hist.op = "insert_failed")
          => /\ err = "out_of_range"
             /\ hist.pos > Len(hist.before)
             /\ Content(s) = hist.before

\* C13: erase(pos, n) with pos <= length removes exactly min(n, length - pos)
\* units at pos, n compared as the unsigned word it is, and shifts the units
\* behind them left; with pos > length it fails with out_of_range.
C13_EraseClamped ==
    /\ (pc = "buffer" /\ hist.op = "erase" /\ s.fault = "none")
          => LET length == Len(hist.before)
                 k == IF ULt(hist.n, length - hist.pos) THEN hist.n ELSE length - hist.pos
             IN  /\ err = "none"
                 /\ hist.pos <= length
                 /\ s.len = length - k
                 /\ Content(s) = SubSeq(hist.before, 1, hist.pos)
                                   \o SubSeq(hist.before, hist.pos + k + 1, length)
    /\ (pc = "buffer" /\ hist.op = "erase_failed")
          => /\ err = "out_of_range"
             /\ hist.pos > Len(hist.before)
             /\ Content(s) = hist.before

CopyOps == {"copy_construct", "copy_assign", "operator_plus"}

\* the units the result of a copying call must hold
CopyExpected ==
    CASE hist.op = "copy_construct" -> hist.before
      [] hist.op = "copy_assign" -> hist.arg
      [] hist.op = "operator_plus" -> hist.before \o hist.arg

\* C18: after copy construction, copy assignment or operator+ the new object
\* holds the units of its source and has storage of its own for its capacity,
\* and a push_back on it writes into that storage.
C18_DeepCopy ==
    /\ [](  (pc = "buffer" /\ hist.op \in CopyOps /\ s.fault = "none")
             => (Content(s) = CopyExpected /\ (s.cap > 0 => ~s.null)))
    /\ [][(pc = "buffer" /\ hist.op \in CopyOps /\ s.fault = "none"
              /\ hist'.op = "push_back")
             => s'.fault = "none"]_vars

\* C19: after a move the target has the length, capacity and units the source
\* had, the source is empty (length 0, capacity 0, null pointer), and a
\* push_back on the source gives what it gives on a fresh empty string.
C19_MoveTransfers ==
    /\ [](  (pc = "buffer" /\ hist.op = "move_target")
             => (s.len = Len(hist.before) /\ Content(s) = hist.before /\ s.cap = hist.cap))
    /\ [](  (pc = "buffer" /\ hist.op = "moved_from")
             => (s.len = 0 /\ s.cap = 0 /\ s.null))
    /\ [][(pc = "buffer" /\ hist.op = "moved_from" /\ hist'.op = "push_back")
             => (s' = push_back(DefaultString, hist'.arg[1]))]_vars

\* a string with units was moved from and is empty now
C19_Witness ==
    /\ pc = "buffer" /\ hist.op = "moved_from"
    /\ Len(hist.before) = MaxLen /\ hist.cap > 0
    /\ s = NullString

(***************************************************************************)
(* Loop specification: one call of a searching or shifting member function *)
(* runs iteration by iteration.  size_type has SizeBits bits here, so that *)
(* an index that wraps around comes back; ret holds the loop index while   *)
(* the call runs and the result once it has returned.                      *)
(***************************************************************************)
\* static_cast<size_type>(-1) at this width
SizeMax == 2 ^ SizeBits - 1

\* arithmetic of size_type
Wrap(x) == x % (SizeMax + 1)

LoopStrings ==
    {DefaultString} \cup {StringFromUnits(u, Len(u)) : u \in ArgSeqs(MaxLen)}

\* positions and counts passed by the caller
Sizes == (0..MaxLen) \cup {SizeMax - 1, SizeMax}

\* the inner loop of find and rfind at i: a cell behind the block holds what
\* the heap holds there, or the read ends the process
RECURSIVE ScanWrapped(_, _, _, _)
ScanWrapped(str, needle, i, j) ==
    IF j >= Len(needle) THEN {"match"}
    ELSE LET at == Wrap(i + j)
         IN  IF str.null \/ at >= Len(str.mem)
             THEN {"crash", "mismatch"} \cup ScanWrapped(str, needle, i, j + 1)
             ELSE IF str.mem[at + 1] = Uninit
             THEN {"mismatch"} \cup ScanWrapped(str, needle, i, j + 1)
             ELSE IF str.mem[at + 1] = needle[j + 1]
             THEN ScanWrapped(str, needle, i, j + 1)
             ELSE {"mismatch"}

\* the inner loop of find_first_of and find_last_of at i
AnyOfAt(str, set, i) ==
    IF Len(set) = 0 THEN {"mismatch"}
    ELSE IF str.null \/ i >= Len(str.mem) THEN {"crash", "mismatch", "match"}
    ELSE IF str.mem[i + 1] = Uninit THEN {"mismatch", "match"}
    ELSE IF \E j \in 1..Len(set) : set[j] = str.mem[i + 1] THEN {"match"}
    ELSE {"mismatch"}

LoopInit ==
    /\ pc = "ready"
    /\ s \in LoopStrings
    /\ hist = NoHist
    /\ err = "none"
    /\ ret = 0
    /\ inp = <<>>
    /\ mode = "explicit"
    /\ src = "none"
    /\ enc = "none"
    /\ out = NoOut
    /\ own = NoOwners
    /\ vec = NullVector

LoopFrame == UNCHANGED <<vec, own, inp, mode, src, enc, out>>

Called(name, pos, n, arg) ==
    hist' = [NoHist EXCEPT !.op = name, !.pos = pos, !.n = n, !.arg = arg]

\* return value;
Return(value) ==
    /\ pc' = "returned"
    /\ ret' = value
    /\ UNCHANGED <<s, err>>

\* throw std::out_of_range()
Throw ==
    /\ pc' = "returned"
    /\ err' = "out_of_range"
    /\ UNCHANGED <<s, ret>>

\* the loop goes on at index i
Continue(i) ==
    /\ ret' = i
    /\ UNCHANGED <<pc, s, err>>

\* the process ends on an invalid access
Crash ==
    /\ pc' = "crashed"
    /\ UNCHANGED <<s, err, ret>>

Outcome(r, i, next) ==
    CASE r = "match" -> Return(i)
      [] r = "mismatch" -> Continue(next)
      [] r = "crash" -> Crash

CallFind ==
    /\ pc = "ready"
    /\ \E needle \in FindNeedles, pos \in Sizes :
          /\ Called("find", pos, 0, needle)
          /\ IF pos >= s.len THEN Return(SizeMax)
             ELSE IF Len(needle) = 0 THEN Return(pos)
             ELSE pc' = "find" /\ ret' = pos /\ UNCHANGED <<s, err>>
    /\ LoopFrame

\* for (i = pos; i <= len - str.len; ++i)
FindStep ==
    /\ pc = "find"
    /\ IF ret > Wrap(s.len - Len(hist.arg)) THEN Return(SizeMax)
       ELSE \E r \in ScanWrapped(s, hist.arg, ret, 0) : Outcome(r, ret, Wrap(ret + 1))
    /\ UNCHANGED hist
    /\ LoopFrame

CallRfind ==
    /\ pc = "ready"
    /\ \E needle \in FindNeedles, pos \in Sizes :
          /\ Called("rfind", pos, 0, needle)
          /\ IF Len(needle) = 0 THEN Return(IF pos < s.len THEN pos ELSE s.len)
             ELSE IF s.len < Len(needle) THEN Return(SizeMax)
             ELSE LET last == Wrap(s.len - Len(needle))
                  IN  /\ pc' = "rfind"
                      /\ ret' = Wrap((IF pos < last THEN pos ELSE last) + 1)
                      /\ UNCHANGED <<s, err>>
    /\ LoopFrame

\* for (i = pos + 1; i-- > 0;)
RfindStep ==
    /\ pc = "rfind"
    /\ IF ret = 0 THEN Return(SizeMax)
       ELSE \E r \in ScanWrapped(s, hist.arg, ret - 1, 0) : Outcome(r, ret - 1, ret - 1)
    /\ UNCHANGED hist
    /\ LoopFrame

CallFindFirstOf ==
    /\ pc = "ready"
    /\ \E set \in FindNeedles, pos \in Sizes :
          /\ Called("find_first_of", pos, 0, set)
          /\ pc' = "find_first_of"
          /\ ret' = pos
    /\ UNCHANGED <<s, err>>
    /\ LoopFrame

\* for (i = pos; i < len; ++i)
FindFirstOfStep ==
    /\ pc = "find_first_of"
    /\ IF ret >= s.len THEN Return(SizeMax)
       ELSE \E r \in AnyOfAt(s, hist.arg, ret) : Outcome(r, ret, Wrap(ret + 1))
    /\ UNCHANGED hist
    /\ LoopFrame

CallFindLastOf ==
    /\ pc = "ready"
    /\ \E set \in FindNeedles, pos \in Sizes :
          /\ Called("find_last_of", pos, 0, set)
          /\ IF s.len = 0 THEN Return(SizeMax)
             ELSE /\ pc' = "find_last_of"
                  /\ ret' = Wrap((IF pos < s.len - 1 THEN pos ELSE s.len - 1) + 1)
                  /\ UNCHANGED <<s, err>>
    /\ LoopFrame

\* for (i = pos + 1; i-- > 0;)
FindLastOfStep ==
    /\ pc = "find_last_of"
    /\ IF ret = 0 THEN Return(SizeMax)
       ELSE \E r \in AnyOfAt(s, hist.arg, ret - 1) : Outcome(r, ret - 1, ret - 1)
    /\ UNCHANGED hist
    /\ LoopFrame

\* erase(pos, n) up to its loop; the count the loop works with is recorded
CallErase ==
    /\ pc = "ready"
    /\ \E pos \in Sizes, n \in Sizes :
          IF pos > s.len THEN Called("erase", pos, n, <<>>) /\ Throw
          ELSE /\ Called("erase", pos,
                         IF n = SizeMax \/ Wrap(pos + n) > s.len THEN s.len - pos ELSE n,
                         <<>>)
               /\ pc' = "erase"
               /\ ret' = pos
               /\ UNCHANGED <<s, err>>
    /\ LoopFrame

\* for (i = pos; i + n < len; ++i) ptr[i] = ptr[i + n]; then len -= n
EraseStep ==
    /\ pc = "erase"
    /\ IF Wrap(ret + hist.n) < s.len
       THEN IF s.null \/ ret >= Len(s.mem) \/ Wrap(ret + hist.n) >= Len(s.mem)
            THEN Crash
            ELSE /\ s' = Store(s, ret, s.mem[Wrap(ret + hist.n) + 1])
                 /\ ret' = Wrap(ret + 1)
                 /\ UNCHANGED <<pc, err>>
       ELSE /\ s' = [s EXCEPT !.len = Wrap(s.len - hist.n)]
            /\ pc' = "returned"
            /\ UNCHANGED <<ret, err>>
    /\ UNCHANGED hist
    /\ LoopFrame

\* insert(pos, s, n) up to its first loop
CallInsert ==
    /\ pc = "ready"
    /\ \E pos \in Sizes, units \in ArgStrings :
          /\ Called("insert", pos, Len(units), units)
          /\ IF pos > s.len THEN Throw
             ELSE /\ s' = ensure_capacity(s, s.len + Len(units))
                  /\ pc' = "insert_shift"
                  /\ ret' = s.len
                  /\ err' = err
    /\ LoopFrame

\* for (i = len; i > pos; --i) ptr[i + n - 1] = ptr[i - 1]
InsertShiftStep ==
    /\ pc = "insert_shift"
    /\ IF ret > hist.pos
       THEN IF Store(s, Wrap(ret + hist.n - 1), Cell(s, ret - 1)).fault # "none"
            THEN Crash
            ELSE /\ s' = Store(s, Wrap(ret + hist.n - 1), Cell(s, ret - 1))
                 /\ ret' = ret - 1
                 /\ UNCHANGED <<pc, err>>
       ELSE /\ pc' = "insert_copy"
            /\ ret' = 0
            /\ UNCHANGED <<s, err>>
    /\ UNCHANGED hist
    /\ LoopFrame

\* for (i = 0; i < n; ++i) ptr[pos + i] = s[i]; then len += n
InsertCopyStep ==
    /\ pc = "insert_copy"
    /\ IF ret < hist.n
       THEN IF Store(s, Wrap(hist.pos + ret), hist.arg[ret + 1]).fault # "none"
            THEN Crash
            ELSE /\ s' = Store(s, Wrap(hist.pos + ret), hist.arg[ret + 1])
                 /\ ret' = ret + 1
                 /\ UNCHANGED <<pc, err>>
       ELSE /\ s' = [s EXCEPT !.len = Wrap(s.len + hist.n)]
            /\ pc' = "returned"
            /\ UNCHANGED <<ret, err>>
    /\ UNCHANGED hist
    /\ LoopFrame

LoopNext ==
    \/ CallFind \/ FindStep
    \/ CallRfind \/ RfindStep
    \/ CallFindFirstOf \/ FindFirstOfStep
    \/ CallFindLastOf \/ FindLastOfStep
    \/ CallErase \/ EraseStep
    \/ CallInsert \/ InsertShiftStep \/ InsertCopyStep

\* a call that has begun goes on running
SpecLoop == LoopInit /\ [][LoopNext]_vars /\ WF_vars(LoopNext)

(***************************************************************************)
(* vector<int>: the fields after each member function.                     *)
(***************************************************************************)
\* the first capacity of an empty vector that grows
VecInitialCapacity == 8

\* the elements in [0, _size)
Elements(vc) ==
    [i \in 1..vc.size |-> IF ~vc.null /\ i <= Len(vc.data) THEN vc.data[i] ELSE Uninit]

\* the number of elements of the block _data points to
Allocated(vc) == IF vc.null THEN 0 ELSE Len(vc.data)

\* _data[i] = x
VecStore(vc, i, x) ==
    IF vc.fault # "none" THEN vc
    ELSE IF vc.null THEN [vc EXCEPT !.fault = "null_write"]
    ELSE IF i < 0 \/ i >= Len(vc.data) THEN [vc EXCEPT !.fault = "oob_write"]
    ELSE [vc EXCEPT !.data[i + 1] = x]

\* ensure_capacity that allocates the doubled capacity only
vec_ensure_capacity_DoublesOnly(vc, new_capacity) ==
    IF vc.fault = "none" /\ new_capacity > vc.capacity
    THEN LET new_cap == IF vc.capacity = 0 THEN VecInitialCapacity ELSE vc.capacity * 2
             copied == IF ~vc.null /\ vc.size > 0 THEN vc.size ELSE 0
         IN  [null |-> FALSE,
              data |-> [i \in 1..new_cap |->
                           IF i <= copied /\ i <= Len(vc.data) THEN vc.data[i] ELSE Uninit],
              size |-> vc.size, capacity |-> new_cap, fault |-> vc.fault]
    ELSE vc

\* vector::ensure_capacity(new_capacity)
vec_ensure_capacity(vc, new_capacity) ==
    IF vc.fault = "none" /\ new_capacity > vc.capacity
    THEN LET dbl == IF vc.capacity = 0 THEN VecInitialCapacity ELSE vc.capacity * 2
             new_cap == IF dbl < new_capacity THEN new_capacity ELSE dbl
             copied == IF ~vc.null /\ vc.size > 0 THEN vc.size ELSE 0
         IN  [null |-> FALSE,
              data |-> [i \in 1..new_cap |->
                           IF i <= copied /\ i <= Len(vc.data) THEN vc.data[i] ELSE Uninit],
              size |-> vc.size, capacity |-> new_cap, fault |-> vc.fault]
    ELSE vc

\* vector(size_type count, const T &value)
vector_count(count, value) ==
    IF count > 0
    THEN [null |-> FALSE, data |-> [i \in 1..count |-> value],
          size |-> count, capacity |-> count, fault |-> "none"]
    ELSE NullVector

\* vector(const vector &other)
vector_copy(other) ==
    IF other.size > 0
    THEN [null |-> FALSE, data |-> Elements(other),
          size |-> other.size, capacity |-> other.capacity, fault |-> "none"]
    ELSE [NullVector EXCEPT !.capacity = other.capacity]

\* vector(std::initializer_list<T> list), list not empty
vector_list(list) ==
    [null |-> FALSE, data |-> list, size |-> Len(list), capacity |-> Len(list),
     fault |-> "none"]

\* push_back(const T &value)
vec_push_back(vc, value) ==
    LET v1 == vec_ensure_capacity(vc, vc.size + 1)
        v2 == VecStore(v1, v1.size, value)
    IN  IF v2.fault = "none" THEN [v2 EXCEPT !.size = v1.size + 1] ELSE v2

\* std::move_backward(_data + first, _data + last, _data + d_last)
RECURSIVE MoveBackward(_, _, _, _)
MoveBackward(vc, first, last, d_last) ==
    IF first # last /\ vc.fault = "none"
    THEN MoveBackward(VecStore(vc, d_last - 1,
                               IF last - 1 < Len(vc.data) THEN vc.data[last] ELSE Uninit),
                      first, last - 1, d_last - 1)
    ELSE vc

\* insert(const_iterator position, const T &x), position = cbegin() + pos_index
vec_insert(vc, pos_index, x) ==
    LET v1 == vec_ensure_capacity(vc, vc.size + 1)
        v2 == MoveBackward(v1, pos_index, v1.size, v1.size + 1)
        v3 == VecStore(v2, pos_index, x)
    IN  IF v3.fault = "none" THEN [v3 EXCEPT !.size = v1.size + 1] ELSE v3

\* reserve(new_cap)
vec_reserve(vc, new_cap) == vec_ensure_capacity(vc, new_cap)

\* shrink_to_fit(): the block stays, _capacity becomes _size
vec_shrink_to_fit(vc) ==
    [vec_ensure_capacity(vc, vc.size) EXCEPT !.capacity = vc.size]

\* pop_back()
vec_pop_back(vc) == IF vc.size > 0 THEN [vc EXCEPT !.size = vc.size - 1] ELSE vc

\* resize(count, value): push_back or pop_back until _size is count
RECURSIVE vec_resize(_, _, _)
vec_resize(vc, count, value) ==
    IF vc.fault # "none" THEN vc
    ELSE IF vc.size < count THEN vec_resize(vec_push_back(vc, value), count, value)
    ELSE IF vc.size > count THEN vec_resize(vec_pop_back(vc), count, value)
    ELSE vc

\* at(pos): the element, or the exception
vec_at(vc, pos) ==
    IF pos >= vc.size THEN [err |-> "out_of_range", ret |-> 0]
    ELSE [err |-> "none", ret |-> Elements(vc)[pos + 1]]

\* operator[](pos) noexcept, which returns at(pos): an exception that leaves a
\* noexcept function ends the process through std::terminate
vec_index(vc, pos) ==
    IF vec_at(vc, pos).err # "none" THEN [err |-> "terminate", ret |-> 0]
    ELSE vec_at(vc, pos)

(***************************************************************************)
(* Vector specification: one vector<int> under a sequence of calls.  A     *)
(* copy continues with the object that results.                            *)
(***************************************************************************)
VecElems == {1, 2}

\* the arguments of reserve: those of test_reserve, and one above twice 8
ReserveArgs == {5, 10, 17}

\* the vectors passed to copy assignment
VecArgs == {vector_list(<<1, 2>>), vec_push_back(NullVector, 1)}

VecAlive == pc = "vector" /\ vec.fault = "none"

VecInit ==
    /\ pc = "vector"
    /\ vec = NullVector
    /\ s = NullString
    /\ hist = NoHist
    /\ err = "none"
    /\ ret = 0
    /\ inp = <<>>
    /\ mode = "explicit"
    /\ src = "none"
    /\ enc = "none"
    /\ out = NoOut
    /\ own = NoOwners

VecFrame == UNCHANGED <<own, inp, mode, src, pc, enc, out, s>>

\* the call name(arg) makes the vector next; of a reserve the argument and
\* the capacity before it are recorded
VecStep(name, arg, next) ==
    /\ vec' = next
    /\ hist' = IF name = "reserve"
               THEN [NoHist EXCEPT !.op = name, !.n = arg, !.cap = vec.capacity]
               ELSE NoHist
    /\ err' = "none"
    /\ ret' = 0
    /\ VecFrame

VecDefault == VecAlive /\ VecStep("vector", 0, NullVector)

VecCount ==
    /\ VecAlive
    /\ \E count \in 0..MaxVec, value \in VecElems :
          VecStep("vector_count", count, vector_count(count, value))

VecList ==
    /\ VecAlive
    /\ VecStep("vector_list", 3, vector_list(<<1, 2, 3>>))

VecCopyConstruct == VecAlive /\ VecStep("copy_construct", 0, vector_copy(vec))

VecCopyAssign ==
    /\ VecAlive
    /\ \E other \in VecArgs : VecStep("copy_assign", 0, vector_copy(other))

VecPushBack ==
    /\ VecAlive
    /\ vec.size < MaxVec
    /\ \E value \in VecElems : VecStep("push_back", value, vec_push_back(vec, value))

VecInsert ==
    /\ VecAlive
    /\ vec.size < MaxVec
    /\ \E pos_index \in 0..vec.size, x \in VecElems :
          VecStep("insert", pos_index, vec_insert(vec, pos_index, x))

VecReserve ==
    /\ VecAlive
    /\ \E new_cap \in ReserveArgs : VecStep("reserve", new_cap, vec_reserve(vec, new_cap))

VecResize ==
    /\ VecAlive
    /\ \E count \in 0..MaxVec, value \in VecElems :
          VecStep("resize", count, vec_resize(vec, count, value))

VecShrinkToFit == VecAlive /\ VecStep("shrink_to_fit", 0, vec_shrink_to_fit(vec))

VecPopBack == VecAlive /\ VecStep("pop_back", 0, vec_pop_back(vec))

\* at(pos): the result is returned or out_of_range is thrown
VecAt ==
    /\ VecAlive
    /\ \E pos \in 0..(vec.size + 1) :
          /\ hist' = [NoHist EXCEPT !.op = "at", !.pos = pos, !.before = Elements(vec)]
          /\ err' = vec_at(vec, pos).err
          /\ ret' = vec_at(vec, pos).ret
    /\ UNCHANGED vec
    /\ VecFrame

\* operator[](pos): the result is returned or the process ends
VecIndex ==
    /\ VecAlive
    /\ \E pos \in 0..(vec.size + 1) :
          /\ hist' = [NoHist EXCEPT !.op = "index", !.pos = pos, !.before = Elements(vec)]
          /\ err' = vec_index(vec, pos).err
          /\ ret' = vec_index(vec, pos).ret
          /\ pc' = IF vec_index(vec, pos).err = "terminate" THEN "terminated" ELSE pc
    /\ UNCHANGED <<vec, own, inp, mode, src, enc, out, s>>

VecNext ==
    \/ VecDefault \/ VecCount \/ VecList \/ VecCopyConstruct \/ VecCopyAssign
    \/ VecPushBack \/ VecInsert \/ VecReserve \/ VecResize
    \/ VecShrinkToFit \/ VecPopBack \/ VecAt \/ VecIndex

SpecVec == VecInit /\ [][VecNext]_vars

(***************************************************************************)
(* Growth specification: ensure_capacity of the string and of the vector   *)
(* applied to an object of a chosen capacity and a chosen required size.   *)
(***************************************************************************)
\* a string whose capacity is c: resize(c), then shrink_to_fit()
StringOfCapacity(c) == shrink_to_fit(resize(DefaultString, c), FALSE)

\* a vector whose capacity is c: vector(c, value)
VectorOfCapacity(c) == vector_count(c, 1)

\* hist.cap is the capacity of the object, hist.n the size asked for
GrowInit ==
    /\ pc = "grow_input"
    /\ \E c \in 0..MaxCapacity, required \in 0..MaxRequired :
          hist = [NoHist EXCEPT !.cap = c, !.n = required]
    /\ s = NullString
    /\ vec = NullVector
    /\ err = "none"
    /\ ret = 0
    /\ inp = <<>>
    /\ mode = "explicit"
    /\ src = "none"
    /\ enc = "none"
    /\ out = NoOut
    /\ own = NoOwners

GrowString ==
    /\ pc = "grow_input"
    /\ s' = ensure_capacity(StringOfCapacity(hist.cap), hist.n)
    /\ pc' = "grown_string"
    /\ UNCHANGED <<vec, own, inp, mode, src, enc, err, out, hist, ret>>

GrowVector ==
    /\ pc = "grow_input"
    /\ vec' = vec_ensure_capacity(VectorOfCapacity(hist.cap), hist.n)
    /\ pc' = "grown_vector"
    /\ UNCHANGED <<s, own, inp, mode, src, enc, err, out, hist, ret>>

GrowNext == GrowString \/ GrowVector

SpecGrow == GrowInit /\ [][GrowNext]_vars

\* C21: when the decoding inside append(const char*) fails, the error is
\* reported and the string has the length and the units it had before.
C21_FailedAppendKeeps ==
    (pc = "buffer" /\ hist.op = "append_bytes" /\ ~ValidUtf8(hist.arg))
        => (err # "none" /\ s.len = Len(hist.before) /\ Content(s) = hist.before)

\* the lexicographic order of two sequences of unsigned unit values, a proper
\* prefix being the lesser
RefLess(x, y) ==
    \E k \in 0..Len(x) :
        /\ k <= Len(y)
        /\ \A i \in 1..k : x[i] = y[i]
        /\ \/ (k = Len(x) /\ k < Len(y))
           \/ (k < Len(x) /\ k < Len(y) /\ x[k + 1] < y[k + 1])

\* C22: operator< is the lexicographic order on the unsigned 16-bit unit
\* values, a shorter string that is a prefix being the lesser, and exactly
\* one of a < b, a == b, b < a holds.
C22_LessIsUnsignedLexicographic ==
    pc = "compared" =>
        /\ ret.lt = RefLess(Content(s), hist.arg)
        /\ ret.gt = RefLess(hist.arg, Content(s))
        /\ ret.eq = (Content(s) = hist.arg)
        /\ (IF ret.lt THEN 1 ELSE 0) + (IF ret.eq THEN 1 ELSE 0)
               + (IF ret.gt THEN 1 ELSE 0) = 1

\* C23: every call of find, rfind, find_first_of, find_last_of, insert and
\* erase terminates: once begun it returns to its caller, by value or by
\* exception, also when the needle is longer than the haystack and when the
\* count of erase is near the maximum of size_type.
C23_CallsTerminate == (pc # "ready") ~> (pc = "returned")

\* C24: at(i), and operator[] built on it, returns element i when i < size
\* and throws out_of_range when i >= size; the container is unchanged.
C24_CheckedAccess ==
    (pc \in {"vector", "terminated"} /\ hist.op \in {"at", "index"})
        => /\ Elements(vec) = hist.before
           /\ IF hist.pos < Len(hist.before)
              THEN err = "none" /\ ret = hist.before[hist.pos + 1]
              ELSE err = "out_of_range"

\* C25: reserve(n) on a vector whose capacity is below n makes the capacity n.
C25_ReserveExact ==
    (pc = "vector" /\ hist.op = "reserve" /\ hist.cap < hist.n)
        => vec.capacity = hist.n

\* C30: in every state of a vector, capacity() does not exceed the number of
\* elements of the block that is allocated.
C30_CapacityWithinBlock ==
    (pc = "vector" /\ vec.fault = "none") => vec.capacity <= Allocated(vec)

\* the capacity after the growth
GrownCapacity == IF pc = "grown_string" THEN s.cap ELSE vec.capacity

\* current * 2^k for the smallest k >= 1 that reaches required
RECURSIVE DoubledUntil(_, _)
DoubledUntil(current, required) ==
    IF current * 2 >= required THEN current * 2 ELSE DoubledUntil(current * 2, required)

C27_EncodeInBounds ==
    (pc = "encoded" /\ ~s.null)
        => \A g \in GarbageUnits :
              /\ Len(EncodeLoop(s, 0, <<>>, g)) <= s.len + 1
              /\ EncodeLastRead(s, 0, g, -1) < s.len

\* b begins with one of the byte-order marks
BeginsWithMark(b) ==
    \E mark \in Marks :
        /\ Len(b) >= Len(MarkBytes(mark))
        /\ SubSeq(b, 1, Len(MarkBytes(mark))) = MarkBytes(mark)

\* the number of multi-byte sequences of b from position i on when every byte
\* >= 0x80 belongs to a lead of two, three or four bytes with all its
\* continuation bytes present, and -1 when some byte does not
RECURSIVE CompleteSequences(_, _, _)
CompleteSequences(b, i, count) ==
    IF i > Len(b) THEN count
    ELSE IF b[i] < 128 THEN CompleteSequences(b, i + 1, count)
    ELSE LET need == IF b[i] >= 192 /\ b[i] <= 223 THEN 1
                     ELSE IF b[i] >= 224 /\ b[i] <= 239 THEN 2
                     ELSE IF b[i] >= 240 /\ b[i] <= 247 THEN 3
                     ELSE 0
         IN  IF /\ need > 0
                /\ i + need <= Len(b)
                /\ \A k \in 1..need : IsContinuation(b[i + k])
             THEN CompleteSequences(b, i + need + 1, count + 1)
             ELSE -1

\* C28: an input of length >= 2 without byte-order mark is classified UTF-8
\* exactly when every byte >= 0x80 belongs to a structurally complete
\* multi-byte sequence, also at the end of the input, and there is at least
\* one such sequence; otherwise it is classified ASCII.
C28_HeuristicComplete ==
    (src = "bytes" /\ Built /\ Len(inp) >= 2 /\ ~BeginsWithMark(inp))
        => enc = IF CompleteSequences(inp, 1, 0) > 0 THEN "UTF8" ELSE "ASCII"

\* C29: on the ASCII path each byte of an input passed with its length, a byte
\* in 0x80..0xFF included, becomes one unit equal to the byte: zero-extended,
\* never with the high byte set.
C29_AsciiZeroExtends ==
    (src = "bytes" /\ mode = "explicit" /\ Built /\ enc = "ASCII")
        => /\ pc # "failed"
           /\ s.len = Len(inp)
           /\ \A i \in 1..s.len : Cell(s, i - 1) = inp[i] /\ Cell(s, i - 1) < 256

====
